---- MODULE Spec2Model ----
(***************************************************************************)
(* The Data-Governance front end (src/index.tsx) as a state machine.       *)
(*                                                                         *)
(* State: the DOM elements the script holds references to (tab buttons and *)
(* panels, four text areas, two buttons, two result surfaces), the         *)
(* streamResponse calls suspended at an await, and the Papa.parse jobs     *)
(* whose callbacks have not run yet.                                       *)
(*                                                                         *)
(* One action per event-loop task: a DOM event handler runs to completion, *)
(* and a suspended streamResponse call runs from the await that resumed it *)
(* to its next await (or to its end).  JavaScript is single threaded, so   *)
(* nothing interleaves inside a task.  Inside a task the DOM writes are    *)
(* kept as a sequence in code order and applied in that order.             *)
(***************************************************************************)
EXTENDS Integers, Sequences, FiniteSets, Bags, TLC

\* Bounds of the model.
MaxLen == 5
MaxInFlight == 3
MaxParses == 1

-----------------------------------------------------------------------------
\* Texts are sequences of one-token strings.

Whitespace == {" ", "\n"}

\* What the user may type into each text area.  Between them the two forms meet
\* an empty, a whitespace-only and a filled-in text in either position; the
\* classifier's fields get their filled-in text from an upload.
Typed(field) ==
  CASE field = "schemaInputCompliance" -> { <<>>, <<" ">>, <<"s">> }
    [] field = "queryInput"            -> { <<>>, <<"q">> }
    [] field = "schemaInputClassifier" -> { <<>> }
    [] field = "sampleInput"           -> { <<>>, <<" ">> }

\* chunk.text of the chunks the model service may deliver.
Frags == { <<"H", "e", "l">>, <<"l", "o">> }

\* error.message of the failures the model service may raise.
Errors == { "503" }

\* error.message of the failures Papa.parse may report.
ParseErrors == { "unreadable" }

\* file.name of the files the user may select.
FileNames == { "d.csv" }

\* results of Papa.parse: meta.fields and data (at most 5 rows, preview: 5).
ParseResults ==
  { [fields |-> <<"a">>, data |-> << >>],
    [fields |-> <<"a">>, data |-> << <<"1">> >>] }

-----------------------------------------------------------------------------
\* DOM elements (the constants of lines 21-35).

TabButtons == { "tabCompliance", "tabClassifier" }
TabContents == { "contentCompliance", "contentClassifier" }
Fields == { "schemaInputCompliance", "queryInput", "schemaInputClassifier", "sampleInput" }
Buttons == { "checkComplianceBtn", "classifyDataBtn" }
Results == { "complianceResult", "classifierResult" }

VARIABLES
  classActive,   \* element -> whether its classList holds 'active'
  ariaSelected,  \* tab button -> its aria-selected attribute
  value,         \* text area -> its value
  innerHTML,     \* result surface -> its innerHTML
  disabled,      \* button -> its disabled flag
  calls,         \* bag of the streamResponse calls suspended at an await
  parses         \* file name -> number of Papa.parse jobs pending on it

vars == << classActive, ariaSelected, value, innerHTML, disabled, calls, parses >>

-----------------------------------------------------------------------------
\* Pure helpers.

\* String.prototype.trim: strips leading and trailing whitespace.
RECURSIVE TrimLeft(_)
TrimLeft(s) ==
  IF s = <<>> THEN <<>>
  ELSE IF Head(s) \in Whitespace THEN TrimLeft(Tail(s)) ELSE s

RECURSIVE TrimRight(_)
TrimRight(s) ==
  IF s = <<>> THEN <<>>
  ELSE IF s[Len(s)] \in Whitespace THEN TrimRight(SubSeq(s, 1, Len(s) - 1)) ELSE s

Trim(s) == TrimRight(TrimLeft(s))

\* Faulty variant: the test forgets to trim.
Blank_NoTrim(s) == s = <<>>

\* !s.trim()
Blank(s) == Trim(s) = <<>>

\* marked.parse: nothing for blank text, else the text as a paragraph.
Marked(text) ==
  IF Blank(text) THEN <<>> ELSE <<"<p>">> \o Trim(text) \o <<"</p>\n">>

LoadingHtml == << "<div class=\"loading\"></div>" >>

StreamErrorHtml(message) ==
  << "<div class=\"error\">An error occurred: ", message, "</div>" >>

ComplianceEmptyHtml ==
  << "<div class=\"error\">Schema and Query cannot be empty.</div>" >>

ClassifierEmptyHtml ==
  << "<div class=\"error\">Schema and Data Sample cannot be empty.</div>" >>

ParseErrorHtml(message) ==
  << "<div class=\"error\">Error parsing file: ", message, "</div>" >>

\* The template literals of the two prompts: the inputs embedded verbatim.
CompliancePrompt(schema, query) ==
  <<"You are a Data Governance Expert.">> \o schema \o <<"**User Query:**">> \o query

ClassifierPrompt(schema, sample) ==
  <<"You are a Data Classification Specialist.">> \o schema \o <<"**Data Sample:**">> \o sample

\* JSON.stringify({name, fields: fields.map(f => ({name: f, type: 'unknown'}))}, null, 2)
RECURSIVE FieldsJson(_)
FieldsJson(fields) ==
  IF fields = <<>> THEN <<>>
  ELSE <<"{\"name\":", Head(fields), "\"type\":\"unknown\"}">> \o FieldsJson(Tail(fields))

SchemaForPrompt(name, fields) ==
  <<"{\"name\":", name, "\"fields\":[">> \o FieldsJson(fields) \o <<"]}">>

\* Papa.unparse(rows): nothing for no rows, else the header line and one line per row.
RECURSIVE RowsCsv(_)
RowsCsv(rows) ==
  IF rows = <<>> THEN <<>> ELSE <<"\n">> \o Head(rows) \o RowsCsv(Tail(rows))

Unparse(fields, rows) ==
  IF rows = <<>> THEN <<>> ELSE fields \o RowsCsv(rows)

-----------------------------------------------------------------------------
\* DOM writes.  A write is [el, prop, val]; a task's writes are applied in order.

Write(el, prop, val) == [el |-> el, prop |-> prop, val |-> val]

RECURSIVE Apply(_, _, _)
Apply(f, prop, W) ==
  IF W = <<>> THEN f
  ELSE LET w == Head(W)
       IN  Apply(IF w.prop = prop THEN [f EXCEPT ![w.el] = w.val] ELSE f, prop, Tail(W))

\* The DOM after the writes W; calls and parses are left to the caller.
Commit(W) ==
  /\ classActive' = Apply(classActive, "class", W)
  /\ ariaSelected' = Apply(ariaSelected, "aria-selected", W)
  /\ value' = Apply(value, "value", W)
  /\ innerHTML' = Apply(innerHTML, "innerHTML", W)
  /\ disabled' = Apply(disabled, "disabled", W)

-----------------------------------------------------------------------------
\* The page as its markup delivers it.  The markup is not part of the script:
\* the compliance tab and panel are the marked pair (one mode is active at all
\* times), the text areas and result surfaces are empty, the buttons enabled.
Markup ==
  [ classActive  |-> [e \in TabButtons \cup TabContents |->
                        e \in {"tabCompliance", "contentCompliance"}],
    ariaSelected |-> [t \in TabButtons |->
                        IF t = "tabCompliance" THEN "true" ELSE "false"],
    value        |-> [f \in Fields |-> <<>>],
    innerHTML    |-> [r \in Results |-> <<>>],
    disabled     |-> [b \in Buttons |-> FALSE] ]

\* The script has run to its end (lines 10-53, 89, 140, 169): the API key is
\* present, the listeners are attached, nothing is in flight.
Init ==
  /\ classActive = Markup.classActive
  /\ ariaSelected = Markup.ariaSelected
  /\ value = Markup.value
  /\ innerHTML = Markup.innerHTML
  /\ disabled = Markup.disabled
  /\ calls = EmptyBag
  /\ parses = [n \in FileNames |-> 0]

-----------------------------------------------------------------------------
\* Tab navigation (lines 38-53).

\* Faulty variant: the chosen pair is marked without clearing the others.
SwitchTabWrites_NoClear(activeTab, activeContent) ==
  << Write(activeTab, "class", TRUE),
     Write(activeTab, "aria-selected", "true"),
     Write(activeContent, "class", TRUE) >>

\* switchTab: clear every tab button and panel, then mark the chosen pair.
SwitchTabWrites(activeTab, activeContent) ==
  << Write("tabCompliance", "class", FALSE),
     Write("tabCompliance", "aria-selected", "false"),
     Write("tabClassifier", "class", FALSE),
     Write("tabClassifier", "aria-selected", "false"),
     Write("contentCompliance", "class", FALSE),
     Write("contentClassifier", "class", FALSE),
     Write(activeTab, "class", TRUE),
     Write(activeTab, "aria-selected", "true"),
     Write(activeContent, "class", TRUE) >>

SwitchTab(activeTab, activeContent) ==
  /\ UNCHANGED << calls, parses >>
  /\ Commit(SwitchTabWrites(activeTab, activeContent))

TabComplianceClick == SwitchTab("tabCompliance", "contentCompliance")

TabClassifierClick == SwitchTab("tabClassifier", "contentClassifier")

-----------------------------------------------------------------------------
\* The user types into a text area (no handler of the script runs).

UserInput(field, text) ==
  /\ value[field] # text
  /\ value' = [value EXCEPT ![field] = text]
  /\ UNCHANGED << classActive, ariaSelected, innerHTML, disabled, calls, parses >>

-----------------------------------------------------------------------------
\* streamResponse (lines 60-86).

Call(resultElement, buttonElement, pc, fullResponse) ==
  [ resultElement |-> resultElement, buttonElement |-> buttonElement,
    pc |-> pc, fullResponse |-> fullResponse ]

One(c) == SetToBag({c})

InFlight == BagToSet(calls)

\* Faulty variant: the button is left enabled while the request is outstanding.
EnterWrites_NoDisable(resultElement, buttonElement) ==
  << Write(resultElement, "innerHTML", LoadingHtml) >>

\* Lines 65-66, before the first await.
EnterWrites(resultElement, buttonElement) ==
  << Write(buttonElement, "disabled", TRUE),
     Write(resultElement, "innerHTML", LoadingHtml) >>

\* Line 75, after the stream has opened.
OpenedWrites(c) == << Write(c.resultElement, "innerHTML", <<>>) >>

\* Lines 77-78, one turn of the for-await loop.
Accumulate(c, text) == c.fullResponse \o text

\* Faulty variant: the loop renders into a fixed surface, not the one it was given.
ChunkWrites_FixedSurface(c, text) ==
  << Write("complianceResult", "innerHTML", Marked(Accumulate(c, text))) >>

ChunkWrites(c, text) ==
  << Write(c.resultElement, "innerHTML", Marked(Accumulate(c, text))) >>

\* Faulty variant: the catch block only logs the error.
CatchWrites_LogOnly(c, message) == << >>

\* Line 82, the catch block.
CatchWrites(c, message) ==
  << Write(c.resultElement, "innerHTML", StreamErrorHtml(message)) >>

\* Faulty variant: nothing re-enables the button.
FinallyWrites_Missing(c) == << >>

\* Line 84, the finally block.
FinallyWrites(c) == << Write(c.buttonElement, "disabled", FALSE) >>

\* What a call writes on each way out: normal completion, and failure.
CompleteWrites(c) == FinallyWrites(c)

\* Faulty variant: the re-enable sits at the end of the try block, not in a finally.
FailWrites_NoFinally(c, message) == CatchWrites(c, message)

FailWrites(c, message) == CatchWrites(c, message) \o FinallyWrites(c)

\* The call up to its first await: the request is issued and the call suspends.
StreamResponse(prompt, resultElement, buttonElement) ==
  /\ BagCardinality(calls) < MaxInFlight
  /\ Commit(EnterWrites(resultElement, buttonElement))
  /\ calls' = calls (+) One(Call(resultElement, buttonElement, "open", <<>>))
  /\ UNCHANGED parses

\* generateContentStream resolves: the surface is cleared and the loop awaits a chunk.
StreamOpened(c) ==
  /\ c \in InFlight /\ c.pc = "open"
  /\ Commit(OpenedWrites(c))
  /\ calls' = (calls (-) One(c)) (+) One([c EXCEPT !.pc = "iter", !.fullResponse = <<>>])
  /\ UNCHANGED parses

\* generateContentStream rejects.
OpenFailed(c, message) ==
  /\ c \in InFlight /\ c.pc = "open"
  /\ Commit(FailWrites(c, message))
  /\ calls' = calls (-) One(c)
  /\ UNCHANGED parses

\* The stream yields a chunk.
ChunkArrived(c, text) ==
  /\ c \in InFlight /\ c.pc = "iter"
  /\ Len(Accumulate(c, text)) <= MaxLen
  /\ Commit(ChunkWrites(c, text))
  /\ calls' = (calls (-) One(c)) (+)
              One([c EXCEPT !.fullResponse = Accumulate(c, text)])
  /\ UNCHANGED parses

\* The stream ends.
StreamCompleted(c) ==
  /\ c \in InFlight /\ c.pc = "iter"
  /\ Commit(CompleteWrites(c))
  /\ calls' = calls (-) One(c)
  /\ UNCHANGED parses

\* The stream throws.
StreamFailed(c, message) ==
  /\ c \in InFlight /\ c.pc = "iter"
  /\ Commit(FailWrites(c, message))
  /\ calls' = calls (-) One(c)
  /\ UNCHANGED parses

-----------------------------------------------------------------------------
\* The click handlers (lines 89-134 and 169-206).  A disabled button gets no click.

CheckComplianceClick ==
  /\ ~disabled["checkComplianceBtn"]
  /\ LET schema == value["schemaInputCompliance"]
         query == value["queryInput"]
     IN  IF Blank(schema) \/ Blank(query)
         THEN /\ Commit(<< Write("complianceResult", "innerHTML", ComplianceEmptyHtml) >>)
              /\ UNCHANGED << calls, parses >>
         ELSE StreamResponse(CompliancePrompt(schema, query),
                             "complianceResult", "checkComplianceBtn")

ClassifyDataClick ==
  /\ ~disabled["classifyDataBtn"]
  /\ LET schema == value["schemaInputClassifier"]
         sample == value["sampleInput"]
     IN  IF Blank(schema) \/ Blank(sample)
         THEN /\ Commit(<< Write("classifierResult", "innerHTML", ClassifierEmptyHtml) >>)
              /\ UNCHANGED << calls, parses >>
         ELSE StreamResponse(ClassifierPrompt(schema, sample),
                             "classifierResult", "classifyDataBtn")

-----------------------------------------------------------------------------
\* File upload (lines 140-166).

NoFile == "undefined"

\* The change handler: no file, nothing; else Papa.parse starts on the file.
FileUploadChange(file) ==
  /\ IF file = NoFile
     THEN UNCHANGED parses
     ELSE /\ parses[file] < MaxParses
          /\ parses' = [parses EXCEPT ![file] = @ + 1]
  /\ UNCHANGED << classActive, ariaSelected, value, innerHTML, disabled, calls >>

\* Lines 150-160.
ParseCompleteWrites(file, results) ==
  << Write("schemaInputClassifier", "value", SchemaForPrompt(file, results.fields)),
     Write("sampleInput", "value", Unparse(results.fields, results.data)) >>

ParseComplete(file, results) ==
  /\ parses[file] > 0
  /\ Commit(ParseCompleteWrites(file, results))
  /\ parses' = [parses EXCEPT ![file] = @ - 1]
  /\ UNCHANGED calls

\* Faulty variant: a failed parse also empties the two fields.
ParseErrorWrites_ClearsFields(message) ==
  << Write("schemaInputClassifier", "value", <<>>),
     Write("sampleInput", "value", <<>>),
     Write("classifierResult", "innerHTML", ParseErrorHtml(message)) >>

\* Line 163.
ParseErrorWrites(message) ==
  << Write("classifierResult", "innerHTML", ParseErrorHtml(message)) >>

ParseError(file, message) ==
  /\ parses[file] > 0
  /\ Commit(ParseErrorWrites(message))
  /\ parses' = [parses EXCEPT ![file] = @ - 1]
  /\ UNCHANGED calls

-----------------------------------------------------------------------------
\* Any step of call c: the continuation that runs when one of its awaits settles.
CallStep(c) ==
  \/ StreamOpened(c)
  \/ \E m \in Errors : OpenFailed(c, m)
  \/ \E t \in Frags : ChunkArrived(c, t)
  \/ StreamCompleted(c)
  \/ \E m \in Errors : StreamFailed(c, m)

\* The tasks that run code of the script: event handlers and call continuations.
Handlers ==
  \/ TabComplianceClick
  \/ TabClassifierClick
  \/ CheckComplianceClick
  \/ ClassifyDataClick
  \/ \E file \in FileNames \cup {NoFile} : FileUploadChange(file)
  \/ \E file \in FileNames, r \in ParseResults : ParseComplete(file, r)
  \/ \E file \in FileNames, m \in ParseErrors : ParseError(file, m)
  \/ \E c \in InFlight : StreamOpened(c)
  \/ \E c \in InFlight, m \in Errors : OpenFailed(c, m)
  \/ \E c \in InFlight, t \in Frags : ChunkArrived(c, t)
  \/ \E c \in InFlight : StreamCompleted(c)
  \/ \E c \in InFlight, m \in Errors : StreamFailed(c, m)

Next ==
  \/ \E f \in Fields : \E t \in Typed(f) : UserInput(f, t)
  \/ Handlers

Spec == Init /\ [][Next]_vars

-----------------------------------------------------------------------------
\* Vocabulary of the properties below.

\* Empty or whitespace-only, stated without trim.
IsBlankText(s) == \A i \in 1..Len(s) : s[i] \in Whitespace

\* The in-flight calls that render into result surface r / own button b.
CallsOn(r) == { c \in InFlight : c.resultElement = r }

CallsOwning(b) == { c \in InFlight : c.buttonElement = b }

\* Number of in-flight calls (copies counted) that render into r.
RECURSIVE Copies(_)
Copies(cs) ==
  IF cs = {} THEN 0
  ELSE LET c == CHOOSE x \in cs : TRUE IN CopiesIn(c, calls) + Copies(cs \ {c})

\* This step ends call c: it leaves the bag and nothing takes its place.
Terminates(c) ==
  /\ c \in InFlight
  /\ calls' = calls (-) One(c)

\* This step is call c failing with the given message, at the open or in the loop.
Fails(c, message) == OpenFailed(c, message) \/ StreamFailed(c, message)

Last(W) == W[Len(W)]

Contains(html, token) == \E i \in 1..Len(html) : html[i] = token

ButtonOf(r) == IF r = "complianceResult" THEN "checkComplianceBtn" ELSE "classifyDataBtn"

-----------------------------------------------------------------------------
\* C1: every way out of streamResponse (normal completion after any number of
\* chunks, a failed open, a failure in the loop) ends the call with its button
\* enabled; the write that re-enables the button is the last write of the call,
\* and the ended call is no longer in flight, so it writes nothing afterwards.
C1_ExitReenablesLast ==
  /\ [][\A c \in InFlight :
          (StreamCompleted(c) \/ \E m \in Errors : Fails(c, m))
            => /\ Terminates(c)
               /\ disabled'[c.buttonElement] = FALSE]_vars
  /\ [](\A c \in InFlight :
          /\ Last(CompleteWrites(c)) = Write(c.buttonElement, "disabled", FALSE)
          /\ \A m \in Errors :
               Last(FailWrites(c, m)) = Write(c.buttonElement, "disabled", FALSE))

\* A failed stream has been reported and its button is enabled again, no call left.
C1_Witness ==
  /\ innerHTML["complianceResult"] = StreamErrorHtml("503")
  /\ ~disabled["checkComplianceBtn"]
  /\ CallsOn("complianceResult") = {}

\* C3: a failing call (at the open, or in the loop after any number of chunks)
\* replaces its result surface by an error message that contains the failure's
\* description, whatever was rendered before, and ends without a second request:
\* the call leaves the set of in-flight calls and no call is started.
C3_FailureShowsErrorNoRetry ==
  [][\A c \in InFlight : \A m \in Errors :
       Fails(c, m)
         => /\ innerHTML'[c.resultElement] = StreamErrorHtml(m)
            /\ Contains(innerHTML'[c.resultElement], m)
            /\ innerHTML'[c.resultElement] # Marked(c.fullResponse)
            /\ Terminates(c)
            /\ BagCardinality(calls') = BagCardinality(calls) - 1]_vars

\* A partially rendered response is on display and the stream may fail now.
C3_Witness ==
  \E c \in InFlight :
    /\ c.pc = "iter"
    /\ c.fullResponse = <<"H", "e", "l">>
    /\ innerHTML[c.resultElement] = Marked(c.fullResponse)

\* C4: a click with a blank (empty or whitespace-only) required input starts no
\* call, shows the mode's validation error and leaves the button enabled; a click
\* with both inputs non-blank starts exactly one call, for the mode's own result
\* surface and button.
C4_ClickValidates ==
  /\ [][CheckComplianceClick =>
          IF IsBlankText(value["schemaInputCompliance"]) \/ IsBlankText(value["queryInput"])
          THEN /\ calls' = calls
               /\ innerHTML'["complianceResult"] = ComplianceEmptyHtml
               /\ disabled' = disabled
               /\ ~disabled'["checkComplianceBtn"]
          ELSE calls' = calls (+)
                 One(Call("complianceResult", "checkComplianceBtn", "open", <<>>))]_vars
  /\ [][ClassifyDataClick =>
          IF IsBlankText(value["schemaInputClassifier"]) \/ IsBlankText(value["sampleInput"])
          THEN /\ calls' = calls
               /\ innerHTML'["classifierResult"] = ClassifierEmptyHtml
               /\ disabled' = disabled
               /\ ~disabled'["classifyDataBtn"]
          ELSE calls' = calls (+)
                 One(Call("classifierResult", "classifyDataBtn", "open", <<>>))]_vars

\* The validation error is shown while one input is whitespace-only and the
\* other is filled in.
C4_Witness ==
  /\ value["schemaInputCompliance"] = <<" ">>
  /\ value["queryInput"] = <<"q">>
  /\ innerHTML["complianceResult"] = ComplianceEmptyHtml
  /\ ~disabled["checkComplianceBtn"]

\* C5: a call disables its button and shows the loading indicator before it first
\* suspends, so (clicks reaching enabled buttons only) at most one call is in
\* flight per result surface, and a button is disabled exactly while a call for
\* its surface is in flight.
C5_NoReentry ==
  /\ [](\A r \in Results :
          /\ Copies(CallsOn(r)) <= 1
          /\ disabled[ButtonOf(r)] <=> CallsOn(r) # {}
          /\ \A c \in CallsOn(r) : c.buttonElement = ButtonOf(r))
  /\ [][\A r \in Results :
          CallsOn(r) = {} /\ calls' # calls
            => \A c \in BagToSet(calls') :
                 c.resultElement = r
                   => /\ c.pc = "open"
                      /\ disabled'[c.buttonElement]
                      /\ innerHTML'[r] = LoadingHtml]_vars

\* Both streams are outstanding, each with its button disabled.
C5_Witness ==
  /\ CallsOn("complianceResult") # {}
  /\ CallsOn("classifierResult") # {}
  /\ disabled["checkComplianceBtn"] /\ disabled["classifyDataBtn"]

\* C2 (as claimed): once a call's stream has opened its surface is cleared, after
\* each chunk the surface shows the rendering of everything accumulated so far,
\* in arrival order, and after normal completion the surface shows the rendering
\* of the whole response.
C2_RenderedInArrivalOrder ==
  [][\A c \in InFlight :
       /\ StreamOpened(c) => innerHTML'[c.resultElement] = <<>>
       /\ \A t \in Frags :
            ChunkArrived(c, t)
              => /\ innerHTML'[c.resultElement] = Marked(c.fullResponse \o t)
                 /\ calls' = (calls (-) One(c)) (+)
                               One([c EXCEPT !.fullResponse = c.fullResponse \o t])
       /\ StreamCompleted(c)
            => innerHTML'[c.resultElement] = Marked(c.fullResponse)]_vars

\* C6 (as claimed): while a call is in flight for a result surface, only steps of
\* such a call change that surface or its button.
C6_RendererWritesExclusively ==
  [][\A r \in Results :
       CallsOn(r) # {} /\ ~(\E c \in CallsOn(r) : CallStep(c))
         => /\ innerHTML'[r] = innerHTML[r]
            /\ disabled'[ButtonOf(r)] = disabled[ButtonOf(r)]]_vars

\* C7: every step of a call (opened, chunk, completion, failure) leaves the other
\* mode's surface, button and calls as they were, whatever the interleaving: what
\* a mode shows is changed by its own call's events only.  So the compliance
\* surface shows, whatever the classifier's call does meanwhile, what the
\* compliance call alone has made of it: the loading indicator until the stream
\* opens, then the rendering of what that call has accumulated.
C7_StreamsDoNotInterfere ==
  /\ [](\A c \in CallsOn("complianceResult") :
          innerHTML["complianceResult"] =
            IF c.pc = "open" THEN LoadingHtml ELSE Marked(c.fullResponse))
  /\ [][\A c \in InFlight :
       CallStep(c)
         => /\ \A r \in Results \ {c.resultElement} : innerHTML'[r] = innerHTML[r]
            /\ \A b \in Buttons \ {c.buttonElement} : disabled'[b] = disabled[b]
            /\ \A d \in InFlight \ {c} : CopiesIn(d, calls') = CopiesIn(d, calls)
            /\ \A d \in BagToSet(calls') \ InFlight :
                 d.resultElement = c.resultElement /\ d.buttonElement = c.buttonElement
            /\ c.buttonElement = ButtonOf(c.resultElement)]_vars

\* Both streams are past their open and have rendered different text.
C7_Witness ==
  \E c \in CallsOn("complianceResult") : \E d \in CallsOn("classifierResult") :
    /\ c.fullResponse = <<"H", "e", "l", "l", "o">>
    /\ d.fullResponse = <<"l", "o">>
    /\ innerHTML["complianceResult"] = Marked(c.fullResponse)
    /\ innerHTML["classifierResult"] = Marked(d.fullResponse)

\* The tab state with exactly the given pair marked.
OnlyActive(tab, content) ==
  /\ classActive = [e \in TabButtons \cup TabContents |-> e \in {tab, content}]
  /\ ariaSelected = [t \in TabButtons |-> IF t = tab THEN "true" ELSE "false"]

\* C8: a tab click leaves exactly the clicked tab and its panel marked, and
\* changes no text area, result surface, button, call or pending parse; no other
\* step changes the marks, so the marked pair is that of the latest click.
C8_ExactlyOneTabActive ==
  /\ [][TabComplianceClick
          => /\ OnlyActive("tabCompliance", "contentCompliance")'
             /\ UNCHANGED << value, innerHTML, disabled, calls, parses >>]_vars
  /\ [][TabClassifierClick
          => /\ OnlyActive("tabClassifier", "contentClassifier")'
             /\ UNCHANGED << value, innerHTML, disabled, calls, parses >>]_vars
  /\ [][classActive' # classActive \/ ariaSelected' # ariaSelected
          => TabComplianceClick \/ TabClassifierClick]_vars
  /\ [](/\ Cardinality({ t \in TabButtons : classActive[t] }) = 1
        /\ Cardinality({ p \in TabContents : classActive[p] }) = 1
        /\ Cardinality({ t \in TabButtons : ariaSelected[t] = "true" }) = 1)

\* The classifier tab is the marked one while a compliance stream is in flight.
C8_Witness ==
  /\ OnlyActive("tabClassifier", "contentClassifier")
  /\ \E c \in CallsOn("complianceResult") : c.pc = "iter"

\* C9: a failed parse writes an error message with the failure's description to
\* the classifier's result surface and leaves every text area as it was; a
\* successful parse overwrites the classifier's schema and sample fields whatever
\* they held, and leaves both result surfaces, both buttons and the compliance
\* fields as they were.
C9_ExtractorFrame ==
  /\ [][\A file \in FileNames : \A m \in ParseErrors :
          ParseError(file, m)
            => /\ innerHTML'["classifierResult"] = ParseErrorHtml(m)
               /\ Contains(innerHTML'["classifierResult"], m)
               /\ value' = value]_vars
  /\ [][\A file \in FileNames : \A r \in ParseResults :
          ParseComplete(file, r)
            => /\ value'["schemaInputClassifier"] = SchemaForPrompt(file, r.fields)
               /\ value'["sampleInput"] = Unparse(r.fields, r.data)
               /\ value'["schemaInputCompliance"] = value["schemaInputCompliance"]
               /\ value'["queryInput"] = value["queryInput"]
               /\ UNCHANGED << innerHTML, disabled, classActive, ariaSelected, calls >>]_vars

\* A parse is pending while the user's own text is in the sample field and the
\* classifier surface shows something else than a parse error.
C9_Witness ==
  /\ parses["d.csv"] > 0
  /\ value["sampleInput"] = <<" ">>
  /\ innerHTML["classifierResult"] = ClassifierEmptyHtml

-----------------------------------------------------------------------------
\* The model service answers: every call in flight for a surface is eventually
\* opened or refused, and every opened stream eventually ends or fails.
Answered(r) ==
  \E c \in CallsOn(r) :
    \/ StreamOpened(c)
    \/ StreamCompleted(c)
    \/ \E m \in Errors : Fails(c, m)

\* The compliance form is filled in and stays so: typing re-enables nothing and
\* disables nothing, and every task of the script remains.
InitFilled ==
  /\ classActive = Markup.classActive
  /\ ariaSelected = Markup.ariaSelected
  /\ value = [Markup.value EXCEPT !["schemaInputCompliance"] = <<"s">>,
                                  !["queryInput"] = <<"q">>]
  /\ innerHTML = Markup.innerHTML
  /\ disabled = Markup.disabled
  /\ calls = EmptyBag
  /\ parses = [n \in FileNames |-> 0]

FairSpec ==
  InitFilled /\ [][Handlers]_vars /\ \A r \in Results : WF_vars(Answered(r))

\* C10: a button is re-enabled only by the termination of a call that owns it
\* (nothing times out, nothing cancels: a stream that never ends leaves the
\* button disabled); when the service answers every call, every disabled button
\* is eventually enabled again.
C10_OnlyTerminationReenables ==
  /\ [][\A b \in Buttons :
          disabled[b] /\ ~disabled'[b]
            => \E c \in CallsOwning(b) :
                 /\ Terminates(c)
                 /\ StreamCompleted(c) \/ \E m \in Errors : Fails(c, m)]_vars
  /\ \A b \in Buttons : disabled[b] ~> ~disabled[b]

\* A stream is open with text rendered and its button disabled: it may hang here.
C10_Witness ==
  \E c \in InFlight :
    /\ c.pc = "iter"
    /\ c.fullResponse # <<>>
    /\ disabled[c.buttonElement]

====
